---- MODULE Spec2Model ----
(***************************************************************************)
(* The Snake (the_snake.py): the per-tick game-state update of main():     *)
(* handle_keys, Snake.update_direction, Snake.move, game_interaction with  *)
(* the randomize_position loops of Apple, RottenApple and Rock, and the    *)
(* drawing step.                                                           *)
(*                                                                         *)
(* Cells are pixel pairs <<x, y>> as in the source, directions are the     *)
(* unit deltas of the source, Python's None is the empty tuple (falsy,     *)
(* like None, and unequal to every cell and every direction).              *)
(*                                                                         *)
(* The game is explored on a board of 2*HalfCols x 2*HalfRows cells (the   *)
(* source's board is 32 x 24 cells, both even, which makes the spawn cell  *)
(* grid-aligned); the head computation of Snake.move is also explored on   *)
(* the source's own 640 x 480 screen (FullGridSpec).                       *)
(***************************************************************************)
EXTENDS Integers, Sequences, FiniteSets, TLC

\* ---- program constants ----
SCREEN_WIDTH == 640
SCREEN_HEIGHT == 480
GRID_SIZE == 20

UP == <<0, -1>>
DOWN == <<0, 1>>
LEFT == <<-1, 0>>
RIGHT == <<1, 0>>

None == <<>>

\* ---- bounds ----
HalfCols == 2
HalfRows == 2
MaxLen == 5
MaxSampleCols == 4
MaxSampleRows == 4

\* ---- the explored board ----
BoardWidth == 2 * HalfCols * GRID_SIZE
BoardHeight == 2 * HalfRows * GRID_SIZE
GRID_WIDTH == BoardWidth \div GRID_SIZE
GRID_HEIGHT == BoardHeight \div GRID_SIZE

\* GameObject.__init__: the position every object is constructed with
Center == <<BoardWidth \div 2, BoardHeight \div 2>>

DIRS == {UP, DOWN, LEFT, RIGHT}
KEYS == {"K_UP", "K_DOWN", "K_LEFT", "K_RIGHT"}

\* no event: the loop of handle_keys is not running
NoEvent == "NONE"

\* the outcomes of randint(0, GRID_WIDTH - 1) and randint(0, GRID_HEIGHT - 1)
\* that are explored: the first MaxSampleCols columns and MaxSampleRows rows
Min(a, b) == IF a < b THEN a ELSE b
SampleCols == 0..(Min(GRID_WIDTH, MaxSampleCols) - 1)
SampleRows == 0..(Min(GRID_HEIGHT, MaxSampleRows) - 1)
SampleCells == {<<gx * GRID_SIZE, gy * GRID_SIZE>> : gx \in SampleCols, gy \in SampleRows}

Cells == {<<gx * GRID_SIZE, gy * GRID_SIZE>> : gx \in 0..(GRID_WIDTH - 1), gy \in 0..(GRID_HEIGHT - 1)}

VARIABLES positions, length, direction, next_direction,
          apple, rotten_apple, rock,
          event, pending, outcome, removed, pc

vars == <<positions, length, direction, next_direction,
          apple, rotten_apple, rock, event, pending, outcome, removed, pc>>

\* ---- helpers ----
Range(s) == {s[i] : i \in 1..Len(s)}

\* Python's positions[1:]
Rest(s) == IF s = <<>> THEN <<>> ELSE Tail(s)

\* Snake.get_head_position: positions[0], None on IndexError
get_head_position(ps) == IF ps = <<>> THEN None ELSE ps[1]

\* one operand of the placement tests: x != p[0] and y != p[1]
Differs(x, y, p) == x # p[1] /\ y # p[2]

\* the all(...) generator over snake_positions
is_snake_position(x, y, snake_positions) ==
    \A i \in 1..Len(snake_positions) : Differs(x, y, snake_positions[i])

\* the optional arguments: "if position:" is false for None
is_other_position(x, y, p) == IF p # None THEN Differs(x, y, p) ELSE TRUE

\* Apple.randomize_position with the rock test left out
Apple_accepts_no_rock(x, y, snake_positions, rotten_apple_position, rock_position) ==
    /\ is_snake_position(x, y, snake_positions)
    /\ is_other_position(x, y, rotten_apple_position)

\* Apple.randomize_position: the test that ends the loop
Apple_accepts(x, y, snake_positions, rotten_apple_position, rock_position) ==
    /\ is_snake_position(x, y, snake_positions)
    /\ is_other_position(x, y, rotten_apple_position)
    /\ is_other_position(x, y, rock_position)

\* RottenApple.randomize_position with the snake test left out
RottenApple_accepts_no_snake(x, y, snake_positions, apple_position, rock_position) ==
    /\ Differs(x, y, apple_position)
    /\ is_other_position(x, y, rock_position)

\* RottenApple.randomize_position: apple_position is compared unconditionally
RottenApple_accepts(x, y, snake_positions, apple_position, rock_position) ==
    /\ is_snake_position(x, y, snake_positions)
    /\ Differs(x, y, apple_position)
    /\ is_other_position(x, y, rock_position)

\* Rock.randomize_position with the rotten apple test left out
Rock_accepts_no_rotten(x, y, snake_positions, apple_position, rotten_apple_position) ==
    /\ is_snake_position(x, y, snake_positions)
    /\ Differs(x, y, apple_position)

\* Rock.randomize_position: both other positions are compared unconditionally
Rock_accepts(x, y, snake_positions, apple_position, rotten_apple_position) ==
    /\ is_snake_position(x, y, snake_positions)
    /\ Differs(x, y, apple_position)
    /\ Differs(x, y, rotten_apple_position)

\* the arguments of the placement call at the front of pending:
\* <<snake_positions, second argument, third argument>>
CallArgs(call) ==
    CASE call = "reset_apple"  -> <<positions, None, None>>
      [] call = "reset_rotten" -> <<positions, apple, None>>
      [] call = "reset_rock"   -> <<positions, apple, rotten_apple>>
      [] call = "eat_apple"    -> <<positions, rotten_apple, rock>>
      [] call = "eat_rotten"   -> <<positions, apple, rock>>

\* the loop test of the placement call
CallAccepts(call, x, y) ==
    LET a == CallArgs(call) IN
    CASE call \in {"reset_apple", "eat_apple"}   -> Apple_accepts(x, y, a[1], a[2], a[3])
      [] call \in {"reset_rotten", "eat_rotten"} -> RottenApple_accepts(x, y, a[1], a[2], a[3])
      [] call = "reset_rock"                     -> Rock_accepts(x, y, a[1], a[2], a[3])

\* ---- Snake ----
\* handle_keys without the tests against the committed direction
KeyDown_no_guard(key, dir, next) ==
    IF key = "K_UP" THEN UP
    ELSE IF key = "K_DOWN" THEN DOWN
    ELSE IF key = "K_LEFT" THEN LEFT
    ELSE IF key = "K_RIGHT" THEN RIGHT
    ELSE next

\* handle_keys testing the key against the pending direction
KeyDown_guard_on_pending(key, dir, next) ==
    IF key = "K_UP" /\ next # DOWN THEN UP
    ELSE IF key = "K_DOWN" /\ next # UP THEN DOWN
    ELSE IF key = "K_LEFT" /\ next # RIGHT THEN LEFT
    ELSE IF key = "K_RIGHT" /\ next # LEFT THEN RIGHT
    ELSE next

\* one KEYDOWN event of handle_keys: the new next_direction
KeyDown(key, dir, next) ==
    IF key = "K_UP" /\ dir # DOWN THEN UP
    ELSE IF key = "K_DOWN" /\ dir # UP THEN DOWN
    ELSE IF key = "K_LEFT" /\ dir # RIGHT THEN LEFT
    ELSE IF key = "K_RIGHT" /\ dir # LEFT THEN RIGHT
    ELSE next

\* Snake.move wrapping to the far border instead of the last cell
NewHead_to_border(head, dir, w, h) ==
    IF dir = UP THEN
        IF head[2] <= 0 THEN <<head[1], h>>
        ELSE <<head[1], head[2] - GRID_SIZE>>
    ELSE IF dir = DOWN THEN
        IF head[2] >= h - GRID_SIZE THEN <<head[1], 0>>
        ELSE <<head[1], head[2] + GRID_SIZE>>
    ELSE IF dir = LEFT THEN
        IF head[1] <= 0 THEN <<w, head[2]>>
        ELSE <<head[1] - GRID_SIZE, head[2]>>
    ELSE
        IF head[1] >= w - GRID_SIZE THEN <<0, head[2]>>
        ELSE <<head[1] + GRID_SIZE, head[2]>>

\* Snake.move: the new head on a screen of w x h pixels
\* (the source writes 620 = w - 20 and 460 = h - 20 for its 640 x 480 screen)
NewHead(head, dir, w, h) ==
    IF dir = UP THEN
        IF head[2] <= 0 THEN <<head[1], h - GRID_SIZE>>
        ELSE <<head[1], head[2] - GRID_SIZE>>
    ELSE IF dir = DOWN THEN
        IF head[2] >= h - GRID_SIZE THEN <<head[1], 0>>
        ELSE <<head[1], head[2] + GRID_SIZE>>
    ELSE IF dir = LEFT THEN
        IF head[1] <= 0 THEN <<w - GRID_SIZE, head[2]>>
        ELSE <<head[1] - GRID_SIZE, head[2]>>
    ELSE
        IF head[1] >= w - GRID_SIZE THEN <<0, head[2]>>
        ELSE <<head[1] + GRID_SIZE, head[2]>>

\* the truncation with "if" in place of "while": one cell removed at most
Truncate_once(ps, len) == IF Len(ps) > len THEN SubSeq(ps, 1, Len(ps) - 1) ELSE ps

\* Snake.move: while len(positions) > length: del positions[-1]
Truncate(ps, len) == IF Len(ps) > len THEN SubSeq(ps, 1, len) ELSE ps

\* Snake.move: the cells the del statements of the loop removed
Deleted(ps, len) == IF Len(ps) > len THEN SubSeq(ps, len + 1, Len(ps)) ELSE <<>>

\* Snake.move: the path with the new head inserted at the front
Inserted(ps, dir, w, h) == <<NewHead(get_head_position(ps), dir, w, h)>> \o ps

\* Snake.move: insert the new head, then truncate
Moved(ps, len, dir, w, h) == Truncate(Inserted(ps, dir, w, h), len)

\* the first condition with "length < 0" in place of "length < 1"
Fatal_length_below_zero(ps, len, rock_position) ==
    \/ get_head_position(ps) \in Range(Rest(ps))
    \/ len < 0
    \/ get_head_position(ps) = rock_position

\* the first condition without the length test
Fatal_no_length(ps, len, rock_position) ==
    \/ get_head_position(ps) \in Range(Rest(ps))
    \/ get_head_position(ps) = rock_position

\* the first condition without the rock test
Fatal_no_rock(ps, len, rock_position) ==
    \/ get_head_position(ps) \in Range(Rest(ps))
    \/ len < 1

\* the first condition without the self-collision test
Fatal_no_self(ps, len, rock_position) ==
    \/ len < 1
    \/ get_head_position(ps) = rock_position

\* the first condition with the self-collision test on positions[1] alone
Fatal_neck_only(ps, len, rock_position) ==
    \/ (Len(ps) >= 2 /\ get_head_position(ps) = ps[2])
    \/ len < 1
    \/ get_head_position(ps) = rock_position

\* game_interaction: the first condition of the if/elif chain
Fatal(ps, len, rock_position) ==
    \/ get_head_position(ps) \in Range(Rest(ps))
    \/ len < 1
    \/ get_head_position(ps) = rock_position

\* the if/elif chain with the rotten apple branch growing the snake
Branch_rotten_grows(ps, len, apple_position, rotten_apple_position, rock_position) ==
    IF Fatal(ps, len, rock_position) THEN "reset"
    ELSE IF get_head_position(ps) = apple_position THEN "grow"
    ELSE IF get_head_position(ps) = rotten_apple_position THEN "grow"
    ELSE "noop"

\* game_interaction: the branch the if/elif chain takes
Branch(ps, len, apple_position, rotten_apple_position, rock_position) ==
    IF Fatal(ps, len, rock_position) THEN "reset"
    ELSE IF get_head_position(ps) = apple_position THEN "grow"
    ELSE IF get_head_position(ps) = rotten_apple_position THEN "shrink"
    ELSE "noop"

\* ---- the cells a constructor's placement can return ----
AppleCells(sp, rp, kp) == {c \in SampleCells : Apple_accepts(c[1], c[2], sp, rp, kp)}
RottenAppleCells(sp, ap, kp) == {c \in SampleCells : RottenApple_accepts(c[1], c[2], sp, ap, kp)}
RockCells(sp, ap, rp) == {c \in SampleCells : Rock_accepts(c[1], c[2], sp, ap, rp)}

\* main(): the objects after construction, at the first iteration of the loop
Init ==
    /\ positions = <<Center>>
    /\ length = 1
    /\ direction = RIGHT
    /\ next_direction = None
    /\ apple \in AppleCells(<<Center>>, None, None)
    /\ rotten_apple \in RottenAppleCells(<<Center>>, apple, None)
    /\ rock \in RockCells(<<Center>>, apple, rotten_apple)
    /\ event = NoEvent
    /\ pending = <<>>
    /\ outcome = "none"
    /\ removed = <<>>
    /\ pc = "keys"

\* handle_keys: one iteration of the for loop, on a KEYDOWN event
handle_keys_event ==
    /\ pc = "keys"
    /\ \E k \in KEYS :
         /\ event' = k
         /\ next_direction' = KeyDown(k, direction, next_direction)
    /\ UNCHANGED <<positions, length, direction, apple, rotten_apple, rock,
                   pending, outcome, removed, pc>>

\* handle_keys: the iteration on a QUIT event raises SystemExit
handle_keys_quit ==
    /\ pc = "keys"
    /\ event' = "QUIT"
    /\ pc' = "quit"
    /\ UNCHANGED <<positions, length, direction, next_direction,
                   apple, rotten_apple, rock, pending, outcome, removed>>

\* handle_keys: the queue is exhausted and the function returns
handle_keys ==
    /\ pc = "keys"
    /\ event' = NoEvent
    /\ pc' = "update"
    /\ UNCHANGED <<positions, length, direction, next_direction,
                   apple, rotten_apple, rock, pending, outcome, removed>>

\* Snake.update_direction
update_direction ==
    /\ pc = "update"
    /\ IF next_direction # None
       THEN direction' = next_direction /\ next_direction' = None
       ELSE UNCHANGED <<direction, next_direction>>
    /\ pc' = "move"
    /\ UNCHANGED <<positions, length, apple, rotten_apple, rock,
                   event, pending, outcome, removed>>

\* Snake.move; with no head to move from, the subscript of None raises
move ==
    /\ pc = "move"
    /\ IF get_head_position(positions) = None
       THEN /\ pc' = "error"
            /\ UNCHANGED <<positions, removed>>
       ELSE /\ positions' = Moved(positions, length, direction, BoardWidth, BoardHeight)
            /\ removed' = Deleted(Inserted(positions, direction, BoardWidth, BoardHeight), length)
            /\ pc' = "interact"
    /\ UNCHANGED <<length, direction, next_direction, apple, rotten_apple, rock,
                   event, pending, outcome>>

\* Snake.reset with the assignment of direction left out
reset_direction_kept == direction

\* Snake.reset: the direction it assigns
reset_direction == RIGHT

\* game_interaction up to its first placement call
game_interaction ==
    /\ pc = "interact"
    /\ LET b == Branch(positions, length, apple, rotten_apple, rock) IN
       /\ outcome' = b
       /\ CASE b = "reset" ->
                 \* snake.reset(), then the three placement calls
                 /\ positions' = <<Center>>
                 /\ length' = 1
                 /\ direction' = reset_direction
                 /\ next_direction' = None
                 /\ pending' = <<"reset_apple", "reset_rotten", "reset_rock">>
                 /\ pc' = "place"
            [] b = "grow" ->
                 /\ length < MaxLen
                 /\ length' = length + 1
                 /\ pending' = <<"eat_apple">>
                 /\ pc' = "place"
                 /\ UNCHANGED <<positions, direction, next_direction>>
            [] b = "shrink" ->
                 /\ length' = length - 1
                 /\ pending' = <<"eat_rotten">>
                 /\ pc' = "place"
                 /\ UNCHANGED <<positions, direction, next_direction>>
            [] b = "noop" ->
                 /\ pc' = "draw"
                 /\ UNCHANGED <<positions, length, direction, next_direction, pending>>
    /\ removed' = <<>>
    /\ UNCHANGED <<apple, rotten_apple, rock, event>>

\* one iteration of the while True loop of the placement call in progress:
\* sample a cell, return it if the test accepts it, else sample again
randomize_position ==
    /\ pc = "place"
    /\ pending # <<>>
    /\ \E gx \in SampleCols, gy \in SampleRows :
         LET x_coordinate == gx * GRID_SIZE
             y_coordinate == gy * GRID_SIZE
             call == Head(pending)
         IN IF CallAccepts(call, x_coordinate, y_coordinate)
            THEN /\ apple' = IF call \in {"reset_apple", "eat_apple"}
                             THEN <<x_coordinate, y_coordinate>> ELSE apple
                 /\ rotten_apple' = IF call \in {"reset_rotten", "eat_rotten"}
                                    THEN <<x_coordinate, y_coordinate>> ELSE rotten_apple
                 /\ rock' = IF call = "reset_rock"
                            THEN <<x_coordinate, y_coordinate>> ELSE rock
                 /\ pending' = Tail(pending)
                 /\ pc' = IF Tail(pending) = <<>> THEN "draw" ELSE "place"
            ELSE UNCHANGED <<apple, rotten_apple, rock, pending, pc>>
    /\ UNCHANGED <<positions, length, direction, next_direction, event, outcome, removed>>

\* main(): the drawing of the tick; Snake.draw needs a head to draw
draw ==
    /\ pc = "draw"
    /\ pc' = IF get_head_position(positions) = None THEN "error" ELSE "keys"
    /\ UNCHANGED <<positions, length, direction, next_direction,
                   apple, rotten_apple, rock, event, pending, outcome, removed>>

Next ==
    \/ handle_keys_event
    \/ handle_keys_quit
    \/ handle_keys
    \/ update_direction
    \/ move
    \/ game_interaction
    \/ randomize_position
    \/ draw

Spec == Init /\ [][Next]_vars

\* main() runs on one thread that is never suspended: a step that can be
\* taken is taken
FairSpec == Spec /\ WF_vars(Next)

\* ---- Snake.move on the source's own 640 x 480 screen ----
FullCells == {<<gx * GRID_SIZE, gy * GRID_SIZE>> :
                gx \in 0..((SCREEN_WIDTH \div GRID_SIZE) - 1),
                gy \in 0..((SCREEN_HEIGHT \div GRID_SIZE) - 1)}

\* a snake of one cell anywhere on the screen, heading anywhere
FullInit ==
    /\ positions \in {<<c>> : c \in FullCells}
    /\ length = 1
    /\ direction \in DIRS
    /\ next_direction = None
    /\ apple = None
    /\ rotten_apple = None
    /\ rock = None
    /\ event = NoEvent
    /\ pending = <<>>
    /\ outcome = "none"
    /\ removed = <<>>
    /\ pc = "move"

\* Snake.move, followed by a turn
FullMove ==
    /\ pc = "move"
    /\ positions' = Moved(positions, length, direction, SCREEN_WIDTH, SCREEN_HEIGHT)
    /\ removed' = Deleted(Inserted(positions, direction, SCREEN_WIDTH, SCREEN_HEIGHT), length)
    /\ direction' \in DIRS
    /\ UNCHANGED <<length, next_direction, apple, rotten_apple, rock,
                   event, pending, outcome, pc>>

FullNext == FullMove

FullGridSpec == FullInit /\ [][FullNext]_vars

\* ======================= properties =======================
\* the cells the arguments of the placement call in progress occupy
Occupied(call) ==
    LET a == CallArgs(call) IN Range(a[1]) \cup ({a[2], a[3]} \ {None})

\* the cell the placement call assigns when it returns
Placed(call, a, r, k) ==
    IF call \in {"reset_apple", "eat_apple"} THEN a
    ELSE IF call \in {"reset_rotten", "eat_rotten"} THEN r
    ELSE k

OnBoard(c) ==
    /\ c[1] \in 0..(BoardWidth - 1) /\ c[1] % GRID_SIZE = 0
    /\ c[2] \in 0..(BoardHeight - 1) /\ c[2] % GRID_SIZE = 0

NoOverlap ==
    /\ apple # rotten_apple
    /\ apple # rock
    /\ rotten_apple # rock
    /\ \A i \in 1..Len(positions) : positions[i] \notin {apple, rotten_apple, rock}

\* C1: in the initial state and at the end of every tick the Apple, the
\* RottenApple and the Rock are on pairwise different cells and none of them
\* is on a cell of the snake's path.
C1_NoOverlap == (pc \in {"keys", "draw"}) => NoOverlap

C1_Witness ==
    /\ pc = "draw"
    /\ outcome = "grow"
    /\ Len(positions) >= 2
    /\ NoOverlap

\* C2: every cell a placement call returns is grid-aligned, inside the grid
\* and different from every cell of the occupied set passed to the call;
\* the same holds of the three placements of the constructors.
C2_PlacementAvoidsOccupied ==
    /\ OnBoard(apple) /\ apple # Center
    /\ OnBoard(rotten_apple) /\ rotten_apple \notin {Center, apple}
    /\ OnBoard(rock) /\ rock \notin {Center, apple, rotten_apple}
    /\ [][(pc = "place" /\ pending' # pending) =>
            LET c == Placed(Head(pending), apple', rotten_apple', rock') IN
            /\ OnBoard(c)
            /\ c \notin Occupied(Head(pending))]_vars

C2_Witness ==
    /\ pc = "draw"
    /\ outcome = "shrink"
    /\ Len(positions) >= 2
    /\ rotten_apple \notin Range(positions) \cup {apple, rock}

\* C3: a placement call in progress whose occupied set leaves some grid cell
\* free has a cell it can return (so that fair sampling ends the loop).
C3_PlacementCanReturn ==
    (pc = "place") =>
        ((\E c \in Cells : c \notin Occupied(Head(pending)))
            => (\E c \in Cells : CallAccepts(Head(pending), c[1], c[2])))

\* C4: immediately after move() the snake's path has exactly length cells,
\* also when the previous tick's interaction step grew or shrank the snake.
C4_PathLenAfterMove == (pc = "interact") => (Len(positions) = length)

C4_Witness ==
    /\ pc = "interact"
    /\ outcome = "shrink"
    /\ length >= 1
    /\ Len(removed) = 2
    /\ Len(positions) = length

\* C5 (as stated): snake.length is at least 1 in every reachable state.
C5_Original == length >= 1

\* C5 (amended): snake.length is never below 0, and it is below 1 only from
\* the interaction step that shrank a snake of length 1 until the
\* interaction step of the next tick.
C5_LengthNeverNegative ==
    /\ length >= 0
    /\ (length < 1) => (outcome = "shrink")

C5_Witness ==
    /\ pc = "interact"
    /\ length = 0
    /\ positions = <<>>

HeadOnBody == \E i \in 2..Len(positions) : positions[i] = positions[1]

HeadOnRock == Len(positions) >= 1 /\ positions[1] = rock

HeadOnApple == Len(positions) >= 1 /\ positions[1] = apple

HeadOnRottenApple == Len(positions) >= 1 /\ positions[1] = rotten_apple

ResetEffect ==
    /\ positions' = <<Center>>
    /\ length' = 1
    /\ next_direction' = None
    /\ pending' = <<"reset_apple", "reset_rotten", "reset_rock">>

\* C6 (as stated): the tick in which the head lands on the RottenApple while
\* length is 1 ends in a full reset.
C6_Original ==
    [][(pc = "interact" /\ length = 1 /\ HeadOnRottenApple) => outcome' = "reset"]_vars

\* C6 (amended): the tick in which the head lands on the RottenApple while
\* length is 1 shrinks the snake to length 0 and re-places only the
\* RottenApple; the interaction step of the next tick is the full reset.
C6_ShrinkThenReset ==
    [][(pc = "interact") =>
         /\ (length = 1 /\ HeadOnRottenApple /\ ~HeadOnRock) =>
               /\ outcome' = "shrink"
               /\ length' = 0
               /\ positions' = positions
               /\ pending' = <<"eat_rotten">>
         /\ (length = 0 /\ outcome = "shrink") =>
               /\ outcome' = "reset"
               /\ ResetEffect]_vars

C6_Witness ==
    /\ pc = "draw"
    /\ outcome = "shrink"
    /\ length = 0
    /\ Len(positions) = 1

\* C7: the interaction step applies exactly one of reset, grow, shrink and
\* no-op; when the head is on a body cell or on the Rock, or length is below
\* 1, it is the reset, and length is then 1, neither grown nor shrunk.
C7_OneOutcome ==
    [][(pc = "interact") =>
         /\ outcome' \in {"reset", "grow", "shrink", "noop"}
         /\ (HeadOnBody \/ HeadOnRock \/ length < 1) => outcome' = "reset"
         /\ (outcome' = "reset") => ResetEffect
         /\ (outcome' = "grow") =>
               /\ HeadOnApple
               /\ length' = length + 1
               /\ positions' = positions
               /\ pending' = <<"eat_apple">>
         /\ (outcome' = "shrink") =>
               /\ HeadOnRottenApple
               /\ length' = length - 1
               /\ positions' = positions
               /\ pending' = <<"eat_rotten">>
         /\ (outcome' = "noop") =>
               /\ length' = length
               /\ positions' = positions
               /\ pending' = <<>>]_vars

C7_Witness ==
    /\ pc = "place"
    /\ outcome = "reset"
    /\ length = 1
    /\ positions = <<Center>>
    /\ Len(pending) = 3

\* the direction an arrow key asks for
KeyDir(k) ==
    CASE k = "K_UP" -> UP
      [] k = "K_DOWN" -> DOWN
      [] k = "K_LEFT" -> LEFT
      [] k = "K_RIGHT" -> RIGHT

Opposite(d) == <<0 - d[1], 0 - d[2]>>

\* C8: a request for the exact opposite of the committed direction leaves
\* next_direction as it is; a request for any other direction is recorded as
\* the pending direction.
C8_ReversalIgnored ==
    [][(pc = "keys" /\ pc' = "keys") =>
         /\ event' \in KEYS
         /\ next_direction' = IF KeyDir(event') = Opposite(direction)
                               THEN next_direction
                               ELSE KeyDir(event')]_vars

C8_Witness ==
    /\ pc = "keys"
    /\ event \in KEYS
    /\ KeyDir(event) = Opposite(direction)
    /\ next_direction \in DIRS \ {direction}

AtEdge(h, d) ==
    \/ d = RIGHT /\ h[1] = SCREEN_WIDTH - GRID_SIZE
    \/ d = LEFT /\ h[1] = 0
    \/ d = DOWN /\ h[2] = SCREEN_HEIGHT - GRID_SIZE
    \/ d = UP /\ h[2] = 0

\* C9: after move() the head is a grid-aligned cell of the 640 x 480 screen;
\* from an edge in the direction of that edge it re-enters at the opposite
\* edge with the other coordinate kept, elsewhere it advances one cell in
\* the committed direction.
C9_HeadWraps ==
    [][(pc = "move") =>
         LET h == positions[1]
             n == positions'[1]
             d == direction
         IN /\ n[1] \in 0..(SCREEN_WIDTH - 1) /\ n[1] % GRID_SIZE = 0
            /\ n[2] \in 0..(SCREEN_HEIGHT - 1) /\ n[2] % GRID_SIZE = 0
            /\ (d = RIGHT /\ h[1] = SCREEN_WIDTH - GRID_SIZE) => n = <<0, h[2]>>
            /\ (d = LEFT /\ h[1] = 0) => n = <<SCREEN_WIDTH - GRID_SIZE, h[2]>>
            /\ (d = DOWN /\ h[2] = SCREEN_HEIGHT - GRID_SIZE) => n = <<h[1], 0>>
            /\ (d = UP /\ h[2] = 0) => n = <<h[1], SCREEN_HEIGHT - GRID_SIZE>>
            /\ ~AtEdge(h, d) => n = <<h[1] + d[1] * GRID_SIZE, h[2] + d[2] * GRID_SIZE>>]_vars

C9_Witness ==
    /\ Len(positions) = 1
    /\ positions[1][1] = 0
    /\ removed = <<<<SCREEN_WIDTH - GRID_SIZE, positions[1][2]>>>>

\* the path of this tick's move() before its tail removal
PrePath == positions \o removed

\* C10 (as stated): when the head computed by move() equals a non-head cell
\* of the path before tail removal, the tick ends in a full reset.
C10_Original ==
    [][(pc = "interact" /\ Head(PrePath) \in Range(Tail(PrePath))) =>
         outcome' = "reset"]_vars

\* C10 (amended): when the head computed by move() equals a non-head cell of
\* the path as it is after tail removal, the tick ends in a full reset.
C10_ResetOnBodyHit ==
    [][(pc = "interact" /\ HeadOnBody) =>
         /\ outcome' = "reset"
         /\ ResetEffect]_vars

C10_Witness ==
    /\ pc = "interact"
    /\ HeadOnBody
    /\ Len(positions) = length

\* the placement call in progress has no cell that its loop test accepts
NoReturnableCell ==
    /\ pc = "place"
    /\ \A c \in Cells : ~CallAccepts(Head(pending), c[1], c[2])

\* C11: a placement call whose occupied set leaves no cell it can return
\* ends (with a 'grid full' error, having no cell to return) instead of
\* sampling forever.
C11_GridFullSurfaced == NoReturnableCell ~> (pc # "place")

\* C12: the tick in which the head moves onto the Apple with no fatal
\* condition has grown the snake by one and goes on to move the Apple to a
\* cell off the snake's path, off the RottenApple and off the Rock.
C12_AppleMoves ==
    (pc = "place" /\ pending = <<"eat_apple">>)
        ~> (/\ pc = "draw"
            /\ outcome = "grow"
            /\ apple \notin Range(positions) \cup {rotten_apple, rock})

\* C13: after a tick whose outcome is a reset the path is the spawn cell
\* alone, length is 1, next_direction is empty and the Apple, the
\* RottenApple and the Rock are on different cells, none on the snake's.
C13_AfterReset ==
    (pc = "draw" /\ outcome = "reset") =>
        /\ positions = <<Center>>
        /\ length = 1
        /\ next_direction = None
        /\ Cardinality({Center, apple, rotten_apple, rock}) = 4

C13_Witness ==
    /\ pc = "draw"
    /\ outcome = "reset"
    /\ Cardinality({Center, apple, rotten_apple, rock}) = 4

NoMatch ==
    /\ ~HeadOnBody
    /\ ~HeadOnRock
    /\ length >= 1
    /\ ~HeadOnApple
    /\ ~HeadOnRottenApple

\* C14: the Rock's cell changes only in a placement of a reset, the Apple's
\* only in a placement after the head met it or of a reset, the
\* RottenApple's likewise; length changes only in the interaction step; the
\* interaction step of a tick with no match changes no cell and no length.
C14_Frame ==
    [][/\ (rock' # rock) => (pc = "place" /\ outcome = "reset")
       /\ (apple' # apple) =>
             (pc = "place" /\ (outcome = "reset" \/ HeadOnApple))
       /\ (rotten_apple' # rotten_apple) =>
             (pc = "place" /\ (outcome = "reset" \/ HeadOnRottenApple))
       /\ (length' # length) => (pc = "interact" /\ ~NoMatch)
       /\ (pc = "interact" /\ NoMatch) =>
             /\ outcome' = "noop"
             /\ pc' = "draw"
             /\ UNCHANGED <<positions, length, direction, next_direction,
                            apple, rotten_apple, rock>>]_vars

C14_Witness ==
    /\ pc = "draw"
    /\ outcome = "noop"
    /\ Len(positions) >= 2

\* C15: the committed direction changes only when update_direction commits
\* a pending direction, never to the exact opposite of the direction the
\* last move() used, and when a reset sets it.
C15_NoReversal ==
    [][(direction' # direction) =>
         \/ (pc = "update" /\ direction' # Opposite(direction))
         \/ (pc = "interact" /\ outcome' = "reset")]_vars

C15_Witness ==
    /\ pc = "move"
    /\ direction = LEFT
    /\ Len(positions) >= 2

HasDuplicate ==
    \E i, j \in 1..Len(positions) : i # j /\ positions[i] = positions[j]

\* C16: the path has a duplicate cell only between move() and the
\* interaction step of the same tick, and that interaction step is a reset;
\* at the end of every tick the path has no duplicate cell.
C16_NoDuplicates ==
    /\ [](HasDuplicate => pc = "interact")
    /\ [][HasDuplicate => (outcome' = "reset" /\ positions' = <<Center>>)]_vars

C16_Witness ==
    /\ pc = "interact"
    /\ HasDuplicate
    /\ removed = <<>>

\* C17: every grid cell that is not a cell of the occupied set of the
\* placement call in progress is a cell the call can return.
C17_EveryFreeCellPossible ==
    (pc = "place") =>
        \A c \in Cells :
            (c \notin Occupied(Head(pending)))
                => CallAccepts(Head(pending), c[1], c[2])

\* C18: when the tick is drawn the path is not empty, so that the head is
\* defined, and neither move() nor the drawing fails for want of a head;
\* this covers the tick in which move() empties the path.
C18_HeadDefinedAtDraw ==
    /\ (pc = "draw") => (Len(positions) >= 1)
    /\ pc # "error"

C18_Witness ==
    /\ pc = "interact"
    /\ positions = <<>>
    /\ Len(removed) = 2

\* C19: an interaction step that finds length below 1 is the full reset
\* and sets length to 1, and length changes in no other step, so that
\* length is not below 1 at the end of two consecutive ticks.
C19_ResetAfterZero ==
    [][/\ (pc = "interact" /\ length < 1) =>
             /\ outcome' = "reset"
             /\ length' = 1
             /\ positions' = <<Center>>
             /\ pending' = <<"reset_apple", "reset_rotten", "reset_rock">>
       /\ (pc # "interact") => (length' = length)
       /\ (length' < 1) => (length' = length \/ length = 1)]_vars

C19_Witness ==
    /\ pc = "move"
    /\ length < 1
    /\ outcome = "shrink"
    /\ direction # RIGHT

\* C20 (as stated): each of Up, Down, Left and Right is a direction the
\* snake can have immediately after a reset.
C20_Original ==
    (pc = "interact" /\ (HeadOnBody \/ HeadOnRock \/ length < 1)) =>
        \A d \in DIRS : ENABLED (game_interaction /\ direction' = d)

\* C20 (amended): immediately after a reset, and until the end of its tick,
\* the committed direction is Right.
C20_ResetDirectionRight ==
    (pc \in {"place", "draw"} /\ outcome = "reset") => (direction = RIGHT)

C20_Witness ==
    /\ pc = "place"
    /\ outcome = "reset"
    /\ pending = <<"reset_rock">>
    /\ direction = RIGHT

====
